---- MODULE Spec2Model ----
(***************************************************************************)
(* A model of pkg/engine/diff.go: the renderer of resource property        *)
(* diffs.  Strings are sequences of character codes, so that the           *)
(* lexicographic order of sort.Strings, strings.Split and                  *)
(* strings.TrimSpace are computed and not assumed.  The output buffer is   *)
(* the sequence of writeWithIndent calls, interleaved with markers for     *)
(* the calls of the differ functions; a failed contract assertion or a     *)
(* failed type assertion ends the buffer with a panic entry.               *)
(***************************************************************************)
EXTENDS Integers, Sequences, FiniteSets, TLC

VARIABLES
    pc,             \* position of the running render call
    seed,           \* the Go runtime's map iteration order for this call
    firstSeed,      \* the map iteration order of the previous call
    buf,            \* bytes.Buffer b: the writes made so far
    ret,            \* the value returned by the call
    val,            \* the property value handed to shouldPrintPropertyValue
    outs,           \* shouldPrintPropertyValue's outs flag
    step,           \* StepEventMetadata: [op, keys, old, new]
    flags,          \* [planning, summary, debug]
    objDiff,        \* printOldNewDiffs: the diff of old and new inputs (<<>> is nil)
    objKeys,        \* printObjectDiff: diff.Keys()
    kidx,           \* printObjectDiff: number of keys the loop has handled
    replaced,       \* printObjectDiff: the causedReplace local
    chunk,          \* what the last loop iteration wrote
    oldEntries,     \* printAssetsDiff: the old entries
    newEntries,     \* printAssetsDiff: the new entries
    oldSorted,      \* printAssetsDiff: sorted names of the old entries
    newSorted,      \* printAssetsDiff: sorted names of the new entries
    oi,             \* printAssetsDiff: i, the index into oldNames
    nj,             \* printAssetsDiff: j, the index into newNames
    handled,        \* printAssetsDiff: the names handled so far, each with how
    oldBlob,        \* printAssetDiff: oldAsset
    newBlob,        \* printAssetDiff: newAsset
    lineDiffs,      \* diffToPrettyString: the chunks of the line diff
    chunkIdx,       \* diffToPrettyString: index of the next chunk
    seenSteps,      \* GetIndent: seen, each seen step's URN with its Res.Parent
    parentURN,      \* GetIndent: p, the parent the walk looks at
    hops            \* GetIndent: indent

vars == <<pc, seed, firstSeed, buf, ret, val, outs, step, flags, objDiff, objKeys, kidx, replaced, chunk,
          oldEntries, newEntries, oldSorted, newSorted, oi, nj, handled,
          oldBlob, newBlob, lineDiffs, chunkIdx, seenSteps, parentURN, hops>>

valueVars == <<firstSeed, ret, val, outs>>
stepVars == <<step, flags, objDiff, objKeys, kidx, replaced>>
assetsVars == <<oldEntries, newEntries, oldSorted, newSorted, oi, nj, handled>>
textVars == <<oldBlob, newBlob, lineDiffs, chunkIdx>>
indentVars == <<seenSteps, parentURN, hops>>

\* ------------------------------------------------------------------ bounds

\* Number of distinct map iteration orders explored (rotations of the key list).
MaxSeed == 2

\* Number of entry names the old and new archives draw from.
MaxNames == 3

\* Most lines of a text asset.
MaxLines == 7

\* Levels of arrays and objects wrapped around a changed property value.
MaxDepth == 1

\* Longest array drawn as an input of shouldPrintPropertyValue.
MaxElems == 2

\* The most runs of a line diff handed to diffToPrettyString.
MaxChunks == 3

\* The number of resource URNs a seen map and a parent reference draw on.
MaxURNs == 3

\* The bits kept of GetIndent's counter, a Go int that wraps on overflow.
IntBits == 3

\* ----------------------------------------------------------------- strings

\* Go's string comparison: bytewise lexicographic, a proper prefix is smaller.
RECURSIVE StrLessFrom(_, _, _)
StrLessFrom(a, b, n) ==
    IF n > Len(b) THEN FALSE
    ELSE IF n > Len(a) THEN TRUE
    ELSE IF a[n] < b[n] THEN TRUE
    ELSE IF a[n] > b[n] THEN FALSE
    ELSE StrLessFrom(a, b, n + 1)

StrLess(a, b) == StrLessFrom(a, b, 1)

\* sort.Strings, as an insertion sort over the collected names.
RECURSIVE InsertSorted(_, _)
InsertSorted(s, x) ==
    IF s = <<>> THEN <<x>>
    ELSE IF StrLess(x, Head(s)) THEN <<x>> \o s
    ELSE <<Head(s)>> \o InsertSorted(Tail(s), x)

RECURSIVE SortFrom(_, _)
SortFrom(acc, s) ==
    IF s = <<>> THEN acc ELSE SortFrom(InsertSorted(acc, Head(s)), Tail(s))

SortStrings(s) == SortFrom(<<>>, s)

RECURSIVE SetToSeq(_)
SetToSeq(S) ==
    IF S = {} THEN <<>>
    ELSE LET x == CHOOSE y \in S : TRUE IN <<x>> \o SetToSeq(S \ {x})

\* `for name := range m`: the keys of m in the order the runtime picks, which
\* differs from call to call (here: a rotation, reversed for odd seeds).
Reverse(s) == [n \in 1..Len(s) |-> s[Len(s) + 1 - n]]

Rotate(s, r) ==
    IF s = <<>> THEN s
    ELSE [n \in 1..Len(s) |-> s[((n - 1 + r) % Len(s)) + 1]]

RangeKeys(m) ==
    LET base == Rotate(SetToSeq(DOMAIN m), seed \div 2)
    IN IF seed % 2 = 1 THEN Reverse(base) ELSE base

\* strings.Split(text, "\n"): the pieces between newlines (code 10); a text
\* ending in a newline yields a last empty piece.
RECURSIVE SplitFrom(_, _, _)
SplitFrom(text, n, cur) ==
    IF n > Len(text) THEN <<cur>>
    ELSE IF text[n] = 10 THEN <<cur>> \o SplitFrom(text, n + 1, <<>>)
    ELSE SplitFrom(text, n + 1, Append(cur, text[n]))

Split(text) == SplitFrom(text, 1, <<>>)

\* strings.TrimSpace(line) == "": every character is white space.
IsBlank(line) == \A n \in 1..Len(line) : line[n] \in {32, 9, 13, 10}

\* ------------------------------------------------------------------ buffer

Ops == {"same", "create", "update", "delete", "replace", "create-replacement",
        "delete-replaced"}

RawPrefix(op) ==
    CASE op = "same" -> "  "
      [] op = "create" -> "+ "
      [] op = "update" -> "~ "
      [] op = "delete" -> "- "
      [] op = "replace" -> "+-"
      [] op = "create-replacement" -> "++"
      [] op = "delete-replaced" -> "--"

PanicEntry(why) == [k |-> "panic", op |-> "same", n |-> 0, rp |-> "", fmt |-> why, args |-> <<>>]

CallEntry(fn) == [k |-> "call", op |-> "same", n |-> 0, rp |-> "", fmt |-> fn, args |-> <<>>]

Panicked(b) == Len(b) > 0 /\ b[Len(b)].k = "panic"

\* Appending to a buffer: nothing runs after a panic.
Cat(a, b) == IF Panicked(a) THEN a ELSE a \o b

RECURSIVE CatAll(_)
CatAll(ss) == IF ss = <<>> THEN <<>> ELSE Cat(Head(ss), CatAll(Tail(ss)))

\* getIndentationString + writeWithIndent: one write, coloured as op, behind
\* indent levels of four spaces whose last two characters are the op's glyph
\* when prefix is set.  No indentation and a prefix is a contract failure.
writeWithIndent(indent, op, prefix, fmt, args) ==
    IF indent <= 0
    THEN IF prefix
         THEN <<PanicEntry("Expected indention for a prefixed line")>>
         ELSE <<[k |-> "write", op |-> op, n |-> 0, rp |-> "", fmt |-> fmt, args |-> args]>>
    ELSE <<[k |-> "write", op |-> op, n |-> indent,
            rp |-> IF prefix THEN RawPrefix(op) ELSE "  ", fmt |-> fmt, args |-> args]>>

writeWithIndentNoPrefix(indent, op, fmt, args) == writeWithIndent(indent, op, FALSE, fmt, args)

write(op, fmt, args) == writeWithIndentNoPrefix(0, op, fmt, args)

writeVerbatim(op, value) == writeWithIndentNoPrefix(0, op, "%s", <<value>>)

\* The literal texts the renderer writes verbatim, as character strings.
LitNull == <<60, 110, 117, 108, 108, 62>>
LitOpenArr == <<91, 10>>
LitEmptyArr == <<91, 93>>
LitOpenObj == <<123, 10>>
LitEmptyObj == <<123, 125>>
LitNewline == <<10>>
LitDots == <<46, 46, 46>>
LitDotsLine == <<46, 46, 46, 10>>
LitArrow == <<45, 62>>

\* The writes of a buffer, without the call markers.
Writes(b) == SelectSeq(b, LAMBDA e : e.k = "write")

\* ------------------------------------------------------------------ values

\* resource.PropertyValue: [kind, v]; the payload v is a string for the scalar
\* kinds, a sequence of values for an array, a map from keys to values for an
\* object, and an asset or archive record for those kinds.
Null == [kind |-> "null", v |-> <<>>]
Bool(b) == [kind |-> "bool", v |-> IF b THEN <<1>> ELSE <<0>>]
Number(n) == [kind |-> "number", v |-> <<n>>]
String(s) == [kind |-> "string", v |-> s]
Array(a) == [kind |-> "array", v |-> a]
Object(o) == [kind |-> "object", v |-> o]
Computed == [kind |-> "computed", v |-> <<>>]
Output == [kind |-> "output", v |-> <<>>]

\* resource.Asset and resource.Archive, as tagged unions with one record shape.
TextAsset(hash, text) ==
    [type |-> "asset", sub |-> "text", hash |-> hash, text |-> text, path |-> <<>>,
     uri |-> <<>>, assets |-> <<>>]
FileAsset(hash, path) ==
    [type |-> "asset", sub |-> "file", hash |-> hash, text |-> <<>>, path |-> path,
     uri |-> <<>>, assets |-> <<>>]
URIAsset(hash, uri) ==
    [type |-> "asset", sub |-> "uri", hash |-> hash, text |-> <<>>, path |-> <<>>,
     uri |-> uri, assets |-> <<>>]
FileArchive(hash, path) ==
    [type |-> "archive", sub |-> "file", hash |-> hash, text |-> <<>>, path |-> path,
     uri |-> <<>>, assets |-> <<>>]
URIArchive(hash, uri) ==
    [type |-> "archive", sub |-> "uri", hash |-> hash, text |-> <<>>, path |-> <<>>,
     uri |-> uri, assets |-> <<>>]
AssetsArchive(hash, assets) ==
    [type |-> "archive", sub |-> "assets", hash |-> hash, text |-> <<>>, path |-> <<>>,
     uri |-> <<>>, assets |-> assets]

\* resource.NewAssetProperty / NewArchiveProperty
assetOrArchiveToPropertyValue(e) ==
    IF e.type = "asset" THEN [kind |-> "asset", v |-> e] ELSE [kind |-> "archive", v |-> e]

shortHash(hash) == IF Len(hash) > 7 THEN SubSeq(hash, 1, 7) ELSE hash

getTextChangeString(old, new) == IF old = new THEN <<old>> ELSE <<old, LitArrow, new>>

\* resource.MassageIfUserProgramCodeAsset: outside debug mode the text of a
\* serialized user program (here: a text starting with code 1) is replaced by
\* a placeholder.
MassageIfUserProgramCodeAsset(a, debug) ==
    IF ~debug /\ a.sub = "text" /\ Len(a.text) > 0 /\ a.text[1] = 1
    THEN [a EXCEPT !.text = LitDots]
    ELSE a

\* shouldPrintPropertyValue without its check for empty arrays
shouldPrintKeepsEmptyArrays(v, o) ==
    IF v.kind = "null" THEN FALSE
    ELSE IF v.kind = "string" /\ v.v = <<>> THEN FALSE
    ELSE IF v.kind = "object" /\ Cardinality(DOMAIN v.v) = 0 THEN FALSE
    ELSE IF v.kind = "output" /\ ~o THEN FALSE
    ELSE TRUE

shouldPrintPropertyValue(v, o) ==
    IF v.kind = "null" THEN FALSE
    ELSE IF v.kind = "string" /\ v.v = <<>> THEN FALSE
    ELSE IF v.kind = "array" /\ Len(v.v) = 0 THEN FALSE
    ELSE IF v.kind = "object" /\ Cardinality(DOMAIN v.v) = 0 THEN FALSE
    ELSE IF v.kind = "output" /\ ~o THEN FALSE
    ELSE TRUE

\* ---------------------------------------------------------- value renderer

\* resource.PropertyMap.StableKeys: the keys of the map, sorted.
StableKeys(props) == SortStrings(RangeKeys(props))

RECURSIVE maxKey(_)
maxKey(keys) ==
    IF keys = <<>> THEN 0
    ELSE LET m == maxKey(Tail(keys))
         IN IF Len(Head(keys)) > m THEN Len(Head(keys)) ELSE m

printPropertyTitle(name, align, indent, op, prefix) ==
    writeWithIndent(indent, op, prefix, "%-*s: ", <<<<align>>, name>>)

Quote(name) == <<34>> \o name \o <<34>>

\* the names of an archive's entries, collected but not sorted
rangedNames(assets) == RangeKeys(assets)

\* The names of an archive's entries, collected by ranging over the map and
\* then sorted (printPropertyValue and printAssetsDiff).
sortedNames(assets) == SortStrings(RangeKeys(assets))

RECURSIVE printPropertyValue(_, _, _, _, _, _)
RECURSIVE printObject(_, _, _, _, _, _)
RECURSIVE printArrayElems(_, _, _, _, _, _, _)
RECURSIVE printObjectKeys(_, _, _, _, _, _, _, _)
RECURSIVE printArchiveEntries(_, _, _, _, _, _, _)
RECURSIVE printTextLines(_, _, _)

printTextLines(lines, indent, op) ==
    IF lines = <<>> THEN <<>>
    ELSE Cat(writeWithIndentNoPrefix(indent, op, "    %s\n", <<Head(lines)>>),
             printTextLines(Tail(lines), indent, op))

\* the loop of printPropertyValue over arr[i..]
printArrayElems(arr, i, planning, indent, op, prefix, debug) ==
    IF i > Len(arr) THEN <<>>
    ELSE CatAll(<<writeWithIndent(indent, op, prefix, "    [%d]: ", <<<<i - 1>>>>),
                  printPropertyValue(arr[i], planning, indent + 1, op, prefix, debug),
                  printArrayElems(arr, i + 1, planning, indent, op, prefix, debug)>>)

printAssetOrArchive(e, name, planning, indent, op, prefix, debug) ==
    Cat(writeWithIndent(indent, op, prefix, "    \"%v\": ", <<name>>),
        printPropertyValue(assetOrArchiveToPropertyValue(e), planning, indent + 1, op,
                           prefix, debug))

printArchiveEntries(assets, names, planning, indent, op, prefix, debug) ==
    IF names = <<>> THEN <<>>
    ELSE Cat(printAssetOrArchive(assets[Head(names)], Head(names), planning, indent, op,
                                 prefix, debug),
             printArchiveEntries(assets, Tail(names), planning, indent, op, prefix, debug))

printPropertyValue(v, planning, indent, op, prefix, debug) ==
    LET body ==
        CASE v.kind = "null" -> writeVerbatim(op, LitNull)
          [] v.kind = "bool" -> write(op, "%t", <<v.v>>)
          [] v.kind = "number" -> write(op, "%v", <<v.v>>)
          [] v.kind = "string" -> write(op, "%q", <<v.v>>)
          [] v.kind = "array" ->
                IF Len(v.v) = 0 THEN writeVerbatim(op, LitEmptyArr)
                ELSE CatAll(<<writeVerbatim(op, LitOpenArr),
                              printArrayElems(v.v, 1, planning, indent, op, prefix, debug),
                              writeWithIndentNoPrefix(indent, op, "]", <<>>)>>)
          [] v.kind = "asset" ->
                LET a == v.v IN
                IF a.sub = "text"
                THEN CatAll(<<write(op, "asset(text:%s) {\n", <<shortHash(a.hash)>>),
                              printTextLines(
                                  Split(MassageIfUserProgramCodeAsset(a, debug).text),
                                  indent, op),
                              writeWithIndentNoPrefix(indent, op, "}", <<>>)>>)
                ELSE IF a.sub = "file"
                THEN write(op, "asset(file:%s) { %s }", <<shortHash(a.hash), a.path>>)
                ELSE write(op, "asset(uri:%s) { %s }", <<shortHash(a.hash), a.uri>>)
          [] v.kind = "archive" ->
                LET a == v.v IN
                IF a.sub = "assets"
                THEN CatAll(<<write(op, "archive(assets:%s) {\n", <<shortHash(a.hash)>>),
                              printArchiveEntries(a.assets, sortedNames(a.assets), planning,
                                                  indent, op, prefix, debug),
                              writeWithIndentNoPrefix(indent, op, "}", <<>>)>>)
                ELSE IF a.sub = "file"
                THEN write(op, "archive(file:%s) { %s }", <<shortHash(a.hash), a.path>>)
                ELSE write(op, "archive(uri:%s) { %v }", <<shortHash(a.hash), a.uri>>)
          [] v.kind \in {"computed", "output"} ->
                IF planning
                THEN writeWithIndentNoPrefix(0, op, IF v.kind = "computed"
                                                    THEN "computed<T>" ELSE "output<T>", <<>>)
                ELSE write(op, "undefined", <<>>)
          [] OTHER ->
                IF Cardinality(DOMAIN v.v) = 0 THEN writeVerbatim(op, LitEmptyObj)
                ELSE CatAll(<<writeVerbatim(op, LitOpenObj),
                              printObject(v.v, planning, indent + 1, op, prefix, debug),
                              writeWithIndentNoPrefix(indent, op, "}", <<>>)>>)
    IN Cat(body, writeVerbatim(op, LitNewline))

\* the loop of printObject over keys
printObjectKeys(props, keys, maxkey, planning, indent, op, prefix, debug) ==
    IF keys = <<>> THEN <<>>
    ELSE LET k == Head(keys)
             rest == printObjectKeys(props, Tail(keys), maxkey, planning, indent, op,
                                     prefix, debug)
         IN IF shouldPrintPropertyValue(props[k], planning)
            THEN CatAll(<<printPropertyTitle(k, maxkey, indent, op, prefix),
                          printPropertyValue(props[k], planning, indent, op, prefix, debug),
                          rest>>)
            ELSE rest

printObject(props, planning, indent, op, prefix, debug) ==
    LET keys == StableKeys(props)
    IN printObjectKeys(props, keys, maxKey(keys), planning, indent, op, prefix, debug)

\* The titleFunc closures: the title of a property (printObjectDiff,
\* printAssetsDiff) or of an array element (printPropertyValueDiff).
PropTitle(name, align, indent) == [t |-> "prop", name |-> name, align |-> align, indent |-> indent]
ElemTitle(i, indent) == [t |-> "elem", name |-> <<i>>, align |-> 0, indent |-> indent]

Title(title, op, prefix) ==
    IF title.t = "prop"
    THEN printPropertyTitle(title.name, title.align, title.indent, op, prefix)
    ELSE writeWithIndent(title.indent + 1, op, prefix, "[%d]: ", <<title.name>>)

printDelete(v, title, planning, indent, debug) ==
    CatAll(<<<<CallEntry("printDelete")>>,
             Title(title, "delete", TRUE),
             printPropertyValue(v, planning, indent, "delete", TRUE, debug)>>)

printAdd(v, title, planning, indent, debug) ==
    CatAll(<<<<CallEntry("printAdd")>>,
             Title(title, "create", TRUE),
             printPropertyValue(v, planning, indent, "create", TRUE, debug)>>)

\* ------------------------------------------------------ text content differ

\* a context budget of one line
contextLinesOne == 2 - 1

contextLines == 2

\* A diffmatchpatch.Diff: [type, text], type one of "equal", "insert", "delete".
DiffChunk(type, text) == [type |-> type, text |-> text]

RawNewline == [k |-> "raw", op |-> "same", n |-> 0, rp |-> "", fmt |-> "\n", args |-> <<>>]

\* writeDiff of diffToPrettyString
writeDiff(indent, op, text) ==
    writeWithIndent(indent, op, op \in {"create", "delete"}, "%s", <<text>>)

\* printLines without the strings.TrimSpace test
RECURSIVE printLinesKeepsBlank(_, _, _, _, _)
printLinesKeepsBlank(indent, op, lines, startInclusive, endExclusive) ==
    IF startInclusive >= endExclusive THEN <<>>
    ELSE CatAll(<<writeDiff(indent, op, lines[startInclusive + 1]), <<RawNewline>>,
                  printLinesKeepsBlank(indent, op, lines, startInclusive + 1, endExclusive)>>)

\* printLines of diffToPrettyString: lines[start..end), indexed from 0
RECURSIVE printLines(_, _, _, _, _)
printLines(indent, op, lines, startInclusive, endExclusive) ==
    IF startInclusive >= endExclusive THEN <<>>
    ELSE LET line == lines[startInclusive + 1]
             rest == printLines(indent, op, lines, startInclusive + 1, endExclusive)
         IN IF ~IsBlank(line)
            THEN CatAll(<<writeDiff(indent, op, line), <<RawNewline>>, rest>>)
            ELSE rest

trimmedLines(lines) == SelectSeq(lines, LAMBDA l : ~IsBlank(l))

\* One iteration of the loop of diffToPrettyString: the chunk diffs[index+1].
prettyChunk(diffs, index, indent) ==
    LET diff == diffs[index + 1]
        lines == Split(diff.text)
        tl == trimmedLines(lines)
    IN CASE diff.type = "insert" -> printLines(indent, "create", lines, 0, Len(lines))
         [] diff.type = "delete" -> printLines(indent, "delete", lines, 0, Len(lines))
         [] OTHER ->
              IF index = 0 /\ Len(tl) > contextLines + 1
              THEN Cat(writeDiff(indent, "same", LitDotsLine),
                       printLines(indent, "same", tl, Len(tl) - contextLines, Len(tl)))
              ELSE IF index # 0 /\ index = Len(diffs) - 1 /\ Len(tl) > contextLines + 1
              THEN Cat(printLines(indent, "same", tl, 0, contextLines),
                       writeDiff(indent, "same", LitDotsLine))
              ELSE IF index # 0 /\ index # Len(diffs) - 1 /\ Len(tl) > 2 * contextLines + 1
              THEN CatAll(<<printLines(indent, "same", tl, 0, contextLines),
                            writeDiff(indent, "same", LitDotsLine),
                            printLines(indent, "same", tl, Len(tl) - contextLines, Len(tl))>>)
              ELSE printLines(indent, "same", tl, 0, Len(tl))

RECURSIVE prettyFrom(_, _, _)
prettyFrom(diffs, index, indent) ==
    IF index >= Len(diffs) THEN <<>>
    ELSE Cat(prettyChunk(diffs, index, indent), prettyFrom(diffs, index + 1, indent))

diffToPrettyString(diffs, indent) == prettyFrom(diffs, 0, indent)

\* diffmatchpatch in line mode (DiffLinesToChars, DiffMain, DiffCharsToLines)
\* on two texts whose differing middle parts share no line: the common
\* leading lines, the old middle as a delete, the new middle as an insert,
\* the common trailing lines.  A line includes its terminating newline.
RECURSIVE LinesFrom(_, _, _)
LinesFrom(text, n, cur) ==
    IF n > Len(text) THEN (IF cur = <<>> THEN <<>> ELSE <<cur>>)
    ELSE IF text[n] = 10 THEN <<Append(cur, 10)>> \o LinesFrom(text, n + 1, <<>>)
    ELSE LinesFrom(text, n + 1, Append(cur, text[n]))

LinesOf(text) == LinesFrom(text, 1, <<>>)

RECURSIVE Join(_)
Join(lines) == IF lines = <<>> THEN <<>> ELSE Head(lines) \o Join(Tail(lines))

RECURSIVE CommonPrefix(_, _)
CommonPrefix(a, b) ==
    IF a = <<>> \/ b = <<>> \/ Head(a) # Head(b) THEN 0
    ELSE 1 + CommonPrefix(Tail(a), Tail(b))

MiddlesDisjoint(old, new) ==
    LET a == LinesOf(old)
        b == LinesOf(new)
        p == CommonPrefix(a, b)
        a1 == SubSeq(a, p + 1, Len(a))
        b1 == SubSeq(b, p + 1, Len(b))
        q == CommonPrefix(Reverse(a1), Reverse(b1))
        am == SubSeq(a1, 1, Len(a1) - q)
        bm == SubSeq(b1, 1, Len(b1) - q)
    IN {am[n] : n \in 1..Len(am)} \cap {bm[n] : n \in 1..Len(bm)} = {}

DiffLines(old, new) ==
    LET a == LinesOf(old)
        b == LinesOf(new)
        p == CommonPrefix(a, b)
        a1 == SubSeq(a, p + 1, Len(a))
        b1 == SubSeq(b, p + 1, Len(b))
        q == CommonPrefix(Reverse(a1), Reverse(b1))
        am == SubSeq(a1, 1, Len(a1) - q)
        bm == SubSeq(b1, 1, Len(b1) - q)
        chunks == <<DiffChunk("equal", Join(SubSeq(a, 1, p))),
                    DiffChunk("delete", Join(am)),
                    DiffChunk("insert", Join(bm)),
                    DiffChunk("equal", Join(SubSeq(a1, Len(a1) - q + 1, Len(a1))))>>
    IN SelectSeq(chunks, LAMBDA c : c.text # <<>>)

\* ------------------------------------------------ asset / archive differ

makeAssetHeader(asset) ==
    IF asset.sub = "file" THEN <<<<102, 105, 108, 101>>, shortHash(asset.hash), asset.path>>
    ELSE IF asset.sub = "uri" THEN <<<<117, 114, 105>>, shortHash(asset.hash), asset.uri>>
    ELSE <<<<116, 101, 120, 116>>, shortHash(asset.hash), LitDots>>

printAssetDiff(title, oldAsset, newAsset, planning, indent, summary, debug) ==
    LET hashChange == getTextChangeString(shortHash(oldAsset.hash), shortHash(newAsset.hash))
        mismatch ==
            Cat(printDelete(assetOrArchiveToPropertyValue(oldAsset), title, planning, indent,
                            debug),
                printAdd(assetOrArchiveToPropertyValue(newAsset), title, planning, indent,
                         debug))
        body ==
            IF oldAsset.hash = newAsset.hash
            THEN IF ~summary
                 THEN Cat(Title(title, "same", FALSE),
                          write("same", "asset(%s:%s) { %s }\n", makeAssetHeader(oldAsset)))
                 ELSE <<>>
            ELSE IF oldAsset.sub = "text"
            THEN IF newAsset.sub = "text"
                 THEN CatAll(<<Title(title, "update", TRUE),
                               write("update", "asset(text:%s) {\n", hashChange),
                               diffToPrettyString(
                                   DiffLines(MassageIfUserProgramCodeAsset(oldAsset, debug).text,
                                             MassageIfUserProgramCodeAsset(newAsset, debug).text),
                                   indent + 1),
                               writeWithIndentNoPrefix(indent, "update", "}\n", <<>>)>>)
                 ELSE mismatch
            ELSE IF oldAsset.sub = "file"
            THEN IF newAsset.sub = "file"
                 THEN Cat(Title(title, "update", TRUE),
                          write("update", "asset(file:%s) { %s }\n",
                                hashChange \o getTextChangeString(oldAsset.path, newAsset.path)))
                 ELSE mismatch
            ELSE IF newAsset.sub = "uri"
                 THEN Cat(Title(title, "update", TRUE),
                          write("update", "asset(uri:%s) { %s }\n",
                                hashChange \o getTextChangeString(oldAsset.uri, newAsset.uri)))
                 ELSE mismatch
    IN Cat(<<CallEntry("printAssetDiff")>>, body)

RECURSIVE printArchiveDiff(_, _, _, _, _, _, _)
RECURSIVE printAssetsDiff(_, _, _, _, _, _)
RECURSIVE assetsLoop(_, _, _, _, _, _, _, _, _, _, _)

\* The entry the merge loop of printAssetsDiff handles at (i, j), both counted
\* from 0: "both" for a name at the head of both lists, else "delete" for the
\* smaller or only old name, else "add".
assetsCase(oldNames, newNames, i, j) ==
    IF i < Len(oldNames) /\ j < Len(newNames)
    THEN IF oldNames[i + 1] = newNames[j + 1] THEN "both"
         ELSE IF StrLess(oldNames[i + 1], newNames[j + 1]) THEN "delete"
         ELSE "add"
    ELSE IF i < Len(oldNames) THEN "delete"
    ELSE "add"

\* One iteration of the merge loop: what it writes.
assetsStep(oldAssets, newAssets, oldNames, newNames, i, j, maxkey, planning, indent, summary, debug) ==
    LET c == assetsCase(oldNames, newNames, i, j) IN
    IF c = "both"
    THEN LET oldName == oldNames[i + 1]
             title == PropTitle(Quote(oldName), maxkey, indent)
             oldAsset == oldAssets[oldName]
             newAsset == newAssets[oldName]
         IN IF oldAsset.type = "archive"
            THEN IF newAsset.type = "archive"
                 THEN printArchiveDiff(title, oldAsset, newAsset, planning, indent, summary,
                                       debug)
                 ELSE <<PanicEntry(
                          "interface conversion: interface {} is *resource.Asset, not *resource.Archive")>>
            ELSE IF newAsset.type = "asset"
                 THEN printAssetDiff(title, oldAsset, newAsset, planning, indent, summary, debug)
                 ELSE <<PanicEntry(
                          "interface conversion: interface {} is *resource.Archive, not *resource.Asset")>>
    ELSE IF c = "delete"
    THEN LET oldName == oldNames[i + 1] IN
         printDelete(assetOrArchiveToPropertyValue(oldAssets[oldName]),
                     PropTitle(Quote(oldName), maxkey, indent), planning, indent + 1, debug)
    ELSE LET newName == newNames[j + 1] IN
         printAdd(assetOrArchiveToPropertyValue(newAssets[newName]),
                  PropTitle(Quote(newName), maxkey, indent), planning, indent + 1, debug)

nextI(oldNames, newNames, i, j) ==
    IF assetsCase(oldNames, newNames, i, j) = "add" THEN i ELSE i + 1

nextJ(oldNames, newNames, i, j) ==
    IF assetsCase(oldNames, newNames, i, j) = "delete" THEN j ELSE j + 1

assetsLoop(oldAssets, newAssets, oldNames, newNames, i, j, maxkey, planning, indent, summary, debug) ==
    IF ~(i < Len(oldNames) \/ j < Len(newNames)) THEN <<>>
    ELSE Cat(assetsStep(oldAssets, newAssets, oldNames, newNames, i, j, maxkey, planning,
                        indent, summary, debug),
             assetsLoop(oldAssets, newAssets, oldNames, newNames,
                        nextI(oldNames, newNames, i, j), nextJ(oldNames, newNames, i, j),
                        maxkey, planning, indent, summary, debug))

quotedKeys(names) == [n \in 1..Len(names) |-> Quote(names[n])]

assetsMaxKey(oldNames, newNames) == maxKey(quotedKeys(oldNames) \o quotedKeys(newNames))

printAssetsDiff(oldAssets, newAssets, planning, indent, summary, debug) ==
    LET oldNames == sortedNames(oldAssets)
        newNames == sortedNames(newAssets)
    IN Cat(<<CallEntry("printAssetsDiff")>>,
           assetsLoop(oldAssets, newAssets, oldNames, newNames, 0, 0,
                      assetsMaxKey(oldNames, newNames), planning, indent, summary, debug))

printArchiveDiff(title, oldArchive, newArchive, planning, indent, summary, debug) ==
    LET hashChange ==
            getTextChangeString(shortHash(oldArchive.hash), shortHash(newArchive.hash))
        mismatch ==
            Cat(printDelete(assetOrArchiveToPropertyValue(oldArchive), title, planning, indent,
                            debug),
                printAdd(assetOrArchiveToPropertyValue(newArchive), title, planning, indent,
                         debug))
        body ==
            IF oldArchive.sub = "file"
            THEN IF newArchive.sub = "file"
                 THEN Cat(Title(title, "update", TRUE),
                          write("update", "archive(file:%s) { %s }\n",
                                hashChange
                                    \o getTextChangeString(oldArchive.path, newArchive.path)))
                 ELSE mismatch
            ELSE IF oldArchive.sub = "uri"
            THEN IF newArchive.sub = "uri"
                 THEN Cat(Title(title, "update", TRUE),
                          write("update", "archive(uri:%s) { %s }\n",
                                hashChange
                                    \o getTextChangeString(oldArchive.uri, newArchive.uri)))
                 ELSE mismatch
            ELSE IF newArchive.sub = "assets"
                 THEN CatAll(<<Title(title, "update", TRUE),
                               write("update", "archive(assets:%s) {\n", hashChange),
                               printAssetsDiff(oldArchive.assets, newArchive.assets, planning,
                                               indent + 1, summary, debug),
                               writeWithIndentNoPrefix(indent, "update", "}\n", <<>>)>>)
                 ELSE mismatch
    IN Cat(<<CallEntry("printArchiveDiff")>>, body)

\* --------------------------------------------------- the structural diff
\* resource.PropertyMap.Diff and resource.PropertyValue.Diff compute the diff
\* the renderer walks.  An absent diff (Go's nil) is <<>>, a present one <<d>>.

RECURSIVE DeepEquals(_, _)
DeepEquals(a, b) ==
    IF a.kind # b.kind THEN FALSE
    ELSE IF a.kind = "array"
    THEN Len(a.v) = Len(b.v) /\ \A n \in 1..Len(a.v) : DeepEquals(a.v[n], b.v[n])
    ELSE IF a.kind = "object"
    THEN DOMAIN a.v = DOMAIN b.v /\ \A k \in DOMAIN a.v : DeepEquals(a.v[k], b.v[k])
    ELSE IF a.kind \in {"asset", "archive"} THEN a.v.hash = b.v.hash
    ELSE a.v = b.v

RECURSIVE ValueDiffOf(_, _)
RECURSIVE ObjectDiffOf(_, _)

ObjectDiffOf(olds, news) ==
    LET both == DOMAIN olds \cap DOMAIN news
        upd == {k \in both : ValueDiffOf(olds[k], news[k]) # <<>>}
        d == [Adds |-> [k \in DOMAIN news \ DOMAIN olds |-> news[k]],
              Deletes |-> [k \in DOMAIN olds \ DOMAIN news |-> olds[k]],
              Updates |-> [k \in upd |-> ValueDiffOf(olds[k], news[k])[1]],
              Sames |-> [k \in both \ upd |-> olds[k]]]
    IN IF DOMAIN d.Adds = {} /\ DOMAIN d.Deletes = {} /\ upd = {} THEN <<>> ELSE <<d>>

ValueDiffOf(old, new) ==
    IF old.kind = "array" /\ new.kind = "array"
    THEN LET lo == Len(old.v)
             ln == Len(new.v)
             both == 0..((IF lo < ln THEN lo ELSE ln) - 1)
             upd == {i \in both : ValueDiffOf(old.v[i + 1], new.v[i + 1]) # <<>>}
             a == [Adds |-> [i \in lo..(ln - 1) |-> new.v[i + 1]],
                   Deletes |-> [i \in ln..(lo - 1) |-> old.v[i + 1]],
                   Updates |-> [i \in upd |-> ValueDiffOf(old.v[i + 1], new.v[i + 1])[1]],
                   Sames |-> [i \in both \ upd |-> old.v[i + 1]]]
         IN IF lo = ln /\ upd = {} THEN <<>>
            ELSE <<[Old |-> old, New |-> new, Array |-> <<a>>, Object |-> <<>>]>>
    ELSE IF old.kind = "object" /\ new.kind = "object"
    THEN LET d == ObjectDiffOf(old.v, new.v)
         IN IF d = <<>> THEN <<>>
            ELSE <<[Old |-> old, New |-> new, Array |-> <<>>, Object |-> d]>>
    ELSE IF DeepEquals(old, new) THEN <<>>
    ELSE <<[Old |-> old, New |-> new, Array |-> <<>>, Object |-> <<>>]>>

\* resource.ObjectDiff.Keys: the keys of the four maps, sorted.
DiffKeys(diff) ==
    SortStrings(RangeKeys(diff.Adds) \o RangeKeys(diff.Deletes) \o RangeKeys(diff.Updates)
                \o RangeKeys(diff.Sames))

\* resource.ArrayDiff.Len: one more than the largest index of the four maps.
ArrayDiffLen(a) ==
    LET idx == DOMAIN a.Adds \cup DOMAIN a.Deletes \cup DOMAIN a.Updates \cup DOMAIN a.Sames
    IN IF idx = {} THEN 0 ELSE 1 + CHOOSE m \in idx : \A n \in idx : n <= m

\* -------------------------------------------------------- diff tree renderer

\* the leaf case without the test of causedReplace
leafIgnoresCausedReplace(diff, causedReplace) ==
    /\ diff.Old.kind = "archive"
    /\ diff.New.kind = "archive"
    /\ shouldPrintPropertyValue(diff.Old, FALSE)
    /\ shouldPrintPropertyValue(diff.New, FALSE)

\* the leaf case with || for the first &&
leafEitherArchive(diff, causedReplace) ==
    /\ diff.Old.kind = "archive" \/ diff.New.kind = "archive"
    /\ ~causedReplace
    /\ shouldPrintPropertyValue(diff.Old, FALSE)
    /\ shouldPrintPropertyValue(diff.New, FALSE)

\* The leaf case of printPropertyValueDiff hands the pair to printArchiveDiff.
leafUsesArchiveDiff(diff, causedReplace) ==
    /\ diff.Old.kind = "archive"
    /\ diff.New.kind = "archive"
    /\ ~causedReplace
    /\ shouldPrintPropertyValue(diff.Old, FALSE)
    /\ shouldPrintPropertyValue(diff.New, FALSE)

\* causedReplace after printObjectDiff has looked at key k
nextCausedReplace(diff, k, replaces, causedReplace) ==
    IF /\ k \notin DOMAIN diff.Adds
       /\ k \notin DOMAIN diff.Deletes
       /\ k \in DOMAIN diff.Updates
       /\ ~causedReplace
       /\ replaces # {}
    THEN k \in replaces
    ELSE causedReplace

RECURSIVE printObjectDiff(_, _, _, _, _, _, _)
RECURSIVE printPropertyValueDiff(_, _, _, _, _, _, _)
RECURSIVE objectDiffLoop(_, _, _, _, _, _, _, _, _)
RECURSIVE arrayDiffLoop(_, _, _, _, _, _, _)

\* the loop body of printObjectDiff without the shouldPrintPropertyValue
\* test of an added property
objectDiffStepAddsUnchecked(diff, k, maxkey, replaces, causedReplace, planning, indent, summary, debug) ==
    LET title == PropTitle(k, maxkey, indent) IN
    IF k \in DOMAIN diff.Adds
    THEN printAdd(diff.Adds[k], title, planning, indent, debug)
    ELSE IF k \in DOMAIN diff.Deletes
    THEN IF shouldPrintPropertyValue(diff.Deletes[k], planning)
         THEN printDelete(diff.Deletes[k], title, planning, indent, debug)
         ELSE <<>>
    ELSE IF k \in DOMAIN diff.Updates
    THEN printPropertyValueDiff(title, diff.Updates[k],
                                nextCausedReplace(diff, k, replaces, causedReplace),
                                planning, indent, summary, debug)
    ELSE IF ~summary /\ k \in DOMAIN diff.Sames
            /\ shouldPrintPropertyValue(diff.Sames[k], planning)
    THEN Cat(Title(title, "same", FALSE),
             printPropertyValue(diff.Sames[k], planning, indent, "same", FALSE, debug))
    ELSE <<>>

\* the loop body of printObjectDiff without the summary test of an
\* unchanged property
objectDiffStepSamesInSummary(diff, k, maxkey, replaces, causedReplace, planning, indent, summary, debug) ==
    LET title == PropTitle(k, maxkey, indent) IN
    IF k \in DOMAIN diff.Adds
    THEN IF shouldPrintPropertyValue(diff.Adds[k], planning)
         THEN printAdd(diff.Adds[k], title, planning, indent, debug)
         ELSE <<>>
    ELSE IF k \in DOMAIN diff.Deletes
    THEN IF shouldPrintPropertyValue(diff.Deletes[k], planning)
         THEN printDelete(diff.Deletes[k], title, planning, indent, debug)
         ELSE <<>>
    ELSE IF k \in DOMAIN diff.Updates
    THEN printPropertyValueDiff(title, diff.Updates[k],
                                nextCausedReplace(diff, k, replaces, causedReplace),
                                planning, indent, summary, debug)
    ELSE IF k \in DOMAIN diff.Sames /\ shouldPrintPropertyValue(diff.Sames[k], planning)
    THEN Cat(Title(title, "same", FALSE),
             printPropertyValue(diff.Sames[k], planning, indent, "same", FALSE, debug))
    ELSE <<>>

\* One iteration of the loop of printObjectDiff, for key k.
objectDiffStep(diff, k, maxkey, replaces, causedReplace, planning, indent, summary, debug) ==
    LET title == PropTitle(k, maxkey, indent) IN
    IF k \in DOMAIN diff.Adds
    THEN IF shouldPrintPropertyValue(diff.Adds[k], planning)
         THEN printAdd(diff.Adds[k], title, planning, indent, debug)
         ELSE <<>>
    ELSE IF k \in DOMAIN diff.Deletes
    THEN IF shouldPrintPropertyValue(diff.Deletes[k], planning)
         THEN printDelete(diff.Deletes[k], title, planning, indent, debug)
         ELSE <<>>
    ELSE IF k \in DOMAIN diff.Updates
    THEN printPropertyValueDiff(title, diff.Updates[k],
                                nextCausedReplace(diff, k, replaces, causedReplace),
                                planning, indent, summary, debug)
    ELSE IF ~summary /\ k \in DOMAIN diff.Sames
            /\ shouldPrintPropertyValue(diff.Sames[k], planning)
    THEN Cat(Title(title, "same", FALSE),
             printPropertyValue(diff.Sames[k], planning, indent, "same", FALSE, debug))
    ELSE <<>>

objectDiffLoop(diff, keys, maxkey, replaces, causedReplace, planning, indent, summary, debug) ==
    IF keys = <<>> THEN <<>>
    ELSE Cat(objectDiffStep(diff, Head(keys), maxkey, replaces, causedReplace, planning,
                            indent, summary, debug),
             objectDiffLoop(diff, Tail(keys), maxkey, replaces,
                            nextCausedReplace(diff, Head(keys), replaces, causedReplace),
                            planning, indent, summary, debug))

printObjectDiff(diff, replaces, causedReplace, planning, indent, summary, debug) ==
    IF ~(indent > 0) THEN <<PanicEntry("assertion failed: indent > 0")>>
    ELSE LET keys == DiffKeys(diff)
         IN objectDiffLoop(diff, keys, maxKey(keys), replaces, causedReplace, planning,
                           indent, summary, debug)

\* the loop of printPropertyValueDiff over the indices i.. of an array diff
arrayDiffLoop(a, i, causedReplace, planning, indent, summary, debug) ==
    IF ~(i < ArrayDiffLen(a)) THEN <<>>
    ELSE LET title == ElemTitle(i, indent)
             this ==
                 IF i \in DOMAIN a.Adds
                 THEN printAdd(a.Adds[i], title, planning, indent + 2, debug)
                 ELSE IF i \in DOMAIN a.Deletes
                 THEN printDelete(a.Deletes[i], title, planning, indent + 2, debug)
                 ELSE IF i \in DOMAIN a.Updates
                 THEN printPropertyValueDiff(title, a.Updates[i], causedReplace, planning,
                                             indent + 2, summary, debug)
                 ELSE IF ~summary
                 THEN Cat(Title(title, "same", FALSE),
                          printPropertyValue(IF i \in DOMAIN a.Sames THEN a.Sames[i] ELSE Null,
                                             planning, indent + 2, "same", FALSE, debug))
                 ELSE <<>>
         IN Cat(this, arrayDiffLoop(a, i + 1, causedReplace, planning, indent, summary, debug))

printPropertyValueDiff(title, diff, causedReplace, planning, indent, summary, debug) ==
    IF ~(indent > 0) THEN <<PanicEntry("assertion failed: indent > 0")>>
    ELSE IF diff.Array # <<>>
    THEN CatAll(<<Title(title, "update", TRUE),
                  writeVerbatim("update", LitOpenArr),
                  arrayDiffLoop(diff.Array[1], 0, causedReplace, planning, indent, summary,
                                debug),
                  writeWithIndentNoPrefix(indent, "update", "]\n", <<>>)>>)
    ELSE IF diff.Object # <<>>
    THEN CatAll(<<Title(title, "update", TRUE),
                  writeVerbatim("update", LitOpenObj),
                  printObjectDiff(diff.Object[1], {}, causedReplace, planning, indent + 1,
                                  summary, debug),
                  writeWithIndentNoPrefix(indent, "update", "}\n", <<>>)>>)
    ELSE IF leafUsesArchiveDiff(diff, causedReplace)
    THEN printArchiveDiff(title, diff.Old.v, diff.New.v, planning, indent, summary, debug)
    ELSE Cat(IF shouldPrintPropertyValue(diff.Old, FALSE)
             THEN printDelete(diff.Old, title, planning, indent, debug) ELSE <<>>,
             IF shouldPrintPropertyValue(diff.New, FALSE)
             THEN printAdd(diff.New, title, planning, indent, debug) ELSE <<>>)

\* resource.State and the step's metadata: NoState is Go's nil *StepEventStateMetadata.
NoState == <<>>

printOldNewDiffs(olds, news, replaces, planning, indent, op, summary, debug) ==
    LET diff == ObjectDiffOf(olds, news)
    IN IF diff # <<>>
       THEN printObjectDiff(diff[1], replaces, FALSE, planning, indent, summary, debug)
       ELSE printObject(news, planning, indent, op, TRUE, debug)

stepReplaces(op, keys) == IF op \in {"create-replacement", "replace"} THEN keys ELSE {}

GetResourcePropertiesDetails(op, keys, old, new, indent, planning, summary, debug) ==
    IF old = NoState /\ new # NoState
    THEN printObject(new[1], planning, indent + 1, op, FALSE, debug)
    ELSE IF new = NoState /\ old # NoState
    THEN IF ~summary THEN printObject(old[1], planning, indent + 1, op, FALSE, debug) ELSE <<>>
    ELSE IF old = NoState
    THEN <<PanicEntry("invalid memory address or nil pointer dereference")>>
    ELSE printOldNewDiffs(old[1], new[1], stepReplaces(op, keys), planning, indent + 1, op,
                          summary, debug)

\* ------------------------------------------------------------------ inputs

KeyA == <<97>>
KeyB == <<98>>
KeyN == <<110>>
KeyX == <<120>>

Hash1 == <<49, 50, 51, 52, 53, 54, 55, 56>>
Hash1b == <<49, 50, 51, 52, 53, 54, 55, 57>>
Hash2 == <<50>>

PathP == <<112>>
PathQ == <<113>>

StrA == <<97>>
StrB == <<98>>

\* Values without children.
Leaves ==
    {Null, Bool(TRUE), Number(0), String(<<>>), String(StrA), Computed, Output,
     [kind |-> "asset", v |-> FileAsset(Hash1, PathP)],
     [kind |-> "archive", v |-> FileArchive(Hash2, PathQ)]}

SeqsUpTo(S, n) == UNION {[1..m -> S] : m \in 0..n}

MapsOver(K, S) == UNION {[D -> S] : D \in SUBSET K}

\* The values shouldPrintPropertyValue is tried on.
Values ==
    Leaves \cup {Array(a) : a \in SeqsUpTo(Leaves, MaxElems)}
           \cup {Object(o) : o \in MapsOver({KeyA, KeyB}, Leaves)}

IdleValue == firstSeed = 0 /\ ret = FALSE /\ val = Null /\ outs = FALSE
IdleStep ==
    /\ step = [op |-> "same", keys |-> {}, old |-> NoState, new |-> NoState]
    /\ flags = [planning |-> FALSE, summary |-> FALSE, debug |-> FALSE]
    /\ objDiff = <<>> /\ objKeys = <<>> /\ kidx = 0 /\ replaced = FALSE
IdleAssets ==
    /\ oldEntries = <<>> /\ newEntries = <<>> /\ oldSorted = <<>> /\ newSorted = <<>>
    /\ oi = 0 /\ nj = 0 /\ handled = <<>>
IdleText == oldBlob = <<>> /\ newBlob = <<>> /\ lineDiffs = <<>> /\ chunkIdx = 0
IdleIndent == seenSteps = <<>> /\ parentURN = "" /\ hops = 0

\* ------------------------------------------- SpecValue: one member of printObject
\* printObject's loop body for one member v: shouldPrintPropertyValue(v, planning)
\* decides, and only then are the title and the value written.

InitValue ==
    /\ IdleIndent
    /\ pc = "start" /\ seed = 0 /\ buf = <<>> /\ chunk = <<>>
    /\ ret = FALSE /\ firstSeed = 0
    /\ val \in Values
    /\ outs \in BOOLEAN
    /\ IdleStep /\ IdleAssets /\ IdleText

ShouldPrint ==
    /\ pc = "start"
    /\ ret' = shouldPrintPropertyValue(val, outs)
    /\ pc' = "decided"
    /\ UNCHANGED <<indentVars, seed, firstSeed, buf, chunk, val, outs, stepVars, assetsVars, textVars>>

PrintMember ==
    /\ pc = "decided" /\ ret
    /\ buf' = Cat(printPropertyTitle(KeyA, 1, 1, "create", FALSE),
                  printPropertyValue(val, outs, 1, "create", FALSE, FALSE))
    /\ pc' = "done"
    /\ UNCHANGED <<indentVars, seed, chunk, valueVars, stepVars, assetsVars, textVars>>

SkipMember ==
    /\ pc = "decided" /\ ~ret
    /\ pc' = "done"
    /\ UNCHANGED <<indentVars, seed, buf, chunk, valueVars, stepVars, assetsVars, textVars>>

NextValue == ShouldPrint \/ PrintMember \/ SkipMember

SpecValue == InitValue /\ [][NextValue]_vars

\* C4: shouldPrintPropertyValue(v, outs) is false exactly for Null, the empty
\* string, the empty array, the empty object, and an Output with outs unset.
EmptyValues == {Null, String(<<>>), Array(<<>>), Object(<<>>)}

C4_ShouldPrintExact ==
    pc # "start" => (ret = FALSE <=> (val \in EmptyValues \/ (val = Output /\ ~outs)))

C4_Witness == pc = "done" /\ val = Output /\ outs /\ ret /\ buf # <<>>

\* --------------------------------- SpecAssets: the merge loop of printAssetsDiff

NamePool == << <<97>>, <<97, 98>>, <<98>>, <<99>>, <<100>>, <<66>> >>

Names == {NamePool[n] : n \in 1..(IF MaxNames < Len(NamePool) THEN MaxNames ELSE Len(NamePool))}

Text7 == <<49, 10, 50, 10, 51, 10, 52, 10, 53, 10, 54, 10, 55>>
Text7b == <<49, 10, 50, 10, 51, 10, 88, 10, 53, 10, 54, 10, 55>>

InnerOld == (KeyX :> FileAsset(Hash2, PathP)) @@ (KeyN :> URIArchive(Hash1, PathQ))
InnerNew == (KeyX :> FileAsset(Hash2, PathP)) @@ (KeyN :> URIArchive(Hash1, PathQ))
              @@ (KeyA :> TextAsset(Hash2, StrA))

\* The (old, new) pairs an entry name present on both sides is tried with.
BothPairs ==
    {<<FileAsset(Hash1, PathP), FileAsset(Hash1b, PathQ)>>,
     <<FileAsset(Hash1, PathP), FileAsset(Hash1, PathP)>>,
     <<TextAsset(Hash1, Text7), TextAsset(Hash2, Text7b)>>,
     <<TextAsset(Hash1, Text7), URIAsset(Hash2, PathQ)>>,
     <<FileArchive(Hash1, PathP), FileArchive(Hash1, PathP)>>,
     <<FileArchive(Hash1, PathP), URIArchive(Hash2, PathQ)>>,
     <<URIArchive(Hash1, PathP), URIArchive(Hash2, PathQ)>>,
     <<AssetsArchive(Hash1, InnerOld), AssetsArchive(Hash2, InnerNew)>>,
     <<AssetsArchive(Hash1, InnerOld), FileArchive(Hash2, PathQ)>>,
     <<FileAsset(Hash1, PathP), FileArchive(Hash2, PathQ)>>,
     <<URIArchive(Hash1, PathP), URIAsset(Hash2, PathQ)>>}

OnlyOldEntry == FileAsset(Hash1, PathP)
OnlyNewEntry == URIArchive(Hash2, PathQ)

InitAssets ==
    /\ IdleIndent
    /\ pc = "start" /\ buf = <<>> /\ chunk = <<>>
    /\ seed \in 0..MaxSeed
    /\ \E inOld \in SUBSET Names, inNew \in SUBSET Names, pair \in BothPairs :
          /\ oldEntries = [n \in inOld |-> IF n \in inNew THEN pair[1] ELSE OnlyOldEntry]
          /\ newEntries = [n \in inNew |-> IF n \in inOld THEN pair[2] ELSE OnlyNewEntry]
    /\ oldSorted = <<>> /\ newSorted = <<>> /\ oi = 0 /\ nj = 0 /\ handled = <<>>
    /\ step = [op |-> "update", keys |-> {}, old |-> NoState, new |-> NoState]
    /\ flags \in [planning : {FALSE}, summary : BOOLEAN, debug : {FALSE}]
    /\ objDiff = <<>> /\ objKeys = <<>> /\ kidx = 0 /\ replaced = FALSE
    /\ IdleValue /\ IdleText

\* printAssetsDiff is called by printArchiveDiff one level below a top-level key.
AssetsIndent == 2

\* How a loop iteration rendered its name: by its first call.
HowRendered(c) ==
    IF c = <<>> THEN "nothing"
    ELSE IF c[1].k = "panic" THEN "panic"
    ELSE IF c[1].fmt = "printDelete" THEN "delete"
    ELSE IF c[1].fmt = "printAdd" THEN "create"
    ELSE "diff"

AssetsStart ==
    /\ pc = "start"
    /\ oldSorted' = sortedNames(oldEntries)
    /\ newSorted' = sortedNames(newEntries)
    /\ oi' = 0 /\ nj' = 0
    /\ pc' = "loop"
    /\ UNCHANGED <<indentVars, seed, buf, chunk, oldEntries, newEntries, handled, valueVars, stepVars,
                   textVars>>

AssetsIter(case) ==
    /\ pc = "loop"
    /\ oi < Len(oldSorted) \/ nj < Len(newSorted)
    /\ assetsCase(oldSorted, newSorted, oi, nj) = case
    /\ LET c == assetsStep(oldEntries, newEntries, oldSorted, newSorted, oi, nj,
                           assetsMaxKey(oldSorted, newSorted), flags.planning, AssetsIndent,
                           flags.summary, flags.debug)
           name == IF case = "add" THEN newSorted[nj + 1] ELSE oldSorted[oi + 1]
       IN /\ chunk' = c
          /\ buf' = Cat(buf, c)
          /\ handled' = Append(handled, [name |-> name, how |-> HowRendered(c)])
          /\ IF Panicked(c)
             THEN pc' = "panic" /\ UNCHANGED <<indentVars, oi, nj>>
             ELSE /\ pc' = "loop"
                  /\ oi' = nextI(oldSorted, newSorted, oi, nj)
                  /\ nj' = nextJ(oldSorted, newSorted, oi, nj)
    /\ UNCHANGED <<indentVars, seed, oldEntries, newEntries, oldSorted, newSorted, valueVars, stepVars,
                   textVars>>

AssetsBoth == AssetsIter("both")
AssetsDelete == AssetsIter("delete")
AssetsAdd == AssetsIter("add")

AssetsDone ==
    /\ pc = "loop"
    /\ ~(oi < Len(oldSorted) \/ nj < Len(newSorted))
    /\ pc' = "done"
    /\ UNCHANGED <<indentVars, seed, buf, chunk, assetsVars, valueVars, stepVars, textVars>>

NextAssets == AssetsStart \/ AssetsBoth \/ AssetsDelete \/ AssetsAdd \/ AssetsDone

SpecAssets == InitAssets /\ [][NextAssets]_vars

\* C1: printAssetsDiff handles every name of old and new exactly once, in
\* strictly ascending order of name: a name only in old as a Delete, a name
\* only in new as a Create, a name in both by the asset/archive differ; the
\* loop ends with both indices at the end of their lists.
HandledAscending ==
    \A n \in 1..(Len(handled) - 1) : StrLess(handled[n].name, handled[n + 1].name)

HandledAsClaimed ==
    \A n \in 1..Len(handled) :
        LET e == handled[n] IN
        /\ e.how = "delete" <=> e.name \in DOMAIN oldEntries \ DOMAIN newEntries
        /\ e.how = "create" <=> e.name \in DOMAIN newEntries \ DOMAIN oldEntries
        /\ e.how \in {"diff", "nothing"} <=> e.name \in DOMAIN oldEntries \cap DOMAIN newEntries

LoopExited == pc \in {"done", "panic"}

C1_SortedMergeHandlesAll ==
    /\ HandledAscending
    /\ HandledAsClaimed
    /\ LoopExited =>
          /\ oi = Len(oldSorted) /\ nj = Len(newSorted)
          /\ {handled[n].name : n \in 1..Len(handled)} = DOMAIN oldEntries \cup DOMAIN newEntries
          /\ Len(handled) = Cardinality(DOMAIN oldEntries \cup DOMAIN newEntries)

\* The same, for the runs in which no entry name changes between asset and archive.
NoTypeMismatch ==
    \A n \in DOMAIN oldEntries \cap DOMAIN newEntries : oldEntries[n].type = newEntries[n].type

MergeHandlesAllUnlessMismatch == NoTypeMismatch => C1_SortedMergeHandlesAll

LastName == handled[Len(handled)].name

LastInBoth == handled # <<>> /\ LastName \in DOMAIN oldEntries \cap DOMAIN newEntries

AllTagged(ws, op) == \A n \in 1..Len(ws) : ws[n].op = op

\* The writes are some Delete-tagged ones followed by some Create-tagged ones.
DeleteThenCreate(ws) ==
    \E m \in 1..(Len(ws) - 1) :
        /\ AllTagged(SubSeq(ws, 1, m), "delete")
        /\ AllTagged(SubSeq(ws, m + 1, Len(ws)), "create")

\* C9: the archive differ, given an old and a new archive with equal hashes
\* (here: for an entry name of both entry maps), emits nothing in summary
\* mode and a Same-tagged line otherwise, and no Update-tagged line.
C9_EqualHashArchiveIsSame ==
    (/\ LastInBoth
     /\ oldEntries[LastName].type = "archive"
     /\ newEntries[LastName].type = "archive"
     /\ oldEntries[LastName].hash = newEntries[LastName].hash)
    => IF flags.summary
       THEN Writes(chunk) = <<>>
       ELSE Writes(chunk) # <<>> /\ AllTagged(Writes(chunk), "same")

\* C10: a kind mismatch between the old and the new value is never an error:
\* rendering completes without a fatal failure, and the old value is emitted
\* as a Delete followed by the new value as a Create.
KindMismatch(old, new) ==
    \/ old.type # new.type
    \/ old.sub # new.sub /\ (old.type = "archive" \/ old.hash # new.hash)

C10_KindMismatchIsNoError ==
    /\ pc # "panic"
    /\ ~Panicked(buf)
    /\ (LastInBoth /\ KindMismatch(oldEntries[LastName], newEntries[LastName]))
       => DeleteThenCreate(Writes(chunk))

\* The same, for an entry that stays an asset or stays an archive.
SubKindMismatchIsDeleteThenCreate ==
    (/\ LastInBoth
     /\ oldEntries[LastName].type = newEntries[LastName].type
     /\ KindMismatch(oldEntries[LastName], newEntries[LastName]))
    => DeleteThenCreate(Writes(chunk))

\* ------------------------- SpecText: printAssetDiff on two text assets
\* The old text has lines "1", "2", ...; the new text differs in one place.

RECURSIVE JoinLines(_)
JoinLines(lines) ==
    IF lines = <<>> THEN <<>>
    ELSE IF Len(lines) = 1 THEN lines[1]
    ELSE lines[1] \o <<10>> \o JoinLines(Tail(lines))

\* n lines, the one at blankAt (if any) holding only a space
NumberedLines(n, blankAt) == [m \in 1..n |-> IF m = blankAt THEN <<32>> ELSE <<48 + m>>]

RemoveAt(s, m) == SubSeq(s, 1, m - 1) \o SubSeq(s, m + 1, Len(s))
InsertAt(s, m, x) == SubSeq(s, 1, m - 1) \o <<x>> \o SubSeq(s, m, Len(s))

Changed(lines, change, at) ==
    CASE change = "replace" -> [lines EXCEPT ![at] = <<88>>]
      [] change = "delete" -> RemoveAt(lines, at)
      [] change = "insert" -> InsertAt(lines, at, <<88>>)

\* the indentation level printAssetDiff is called with
TextIndent == 2

TextTitle == PropTitle(Quote(KeyA), 3, TextIndent)

InitText ==
    /\ IdleIndent
    /\ pc = "start" /\ seed = 0 /\ buf = <<>> /\ chunk = <<>>
    /\ \E n \in 1..MaxLines, at \in 1..MaxLines, blankAt \in 0..MaxLines,
          change \in {"replace", "delete", "insert"}, nl \in BOOLEAN :
          /\ at <= n /\ blankAt <= n /\ blankAt # at
          /\ LET old == NumberedLines(n, blankAt)
                 end == IF nl THEN <<10>> ELSE <<>>
             IN /\ oldBlob = TextAsset(Hash1, JoinLines(old) \o end)
                /\ newBlob = TextAsset(Hash2, JoinLines(Changed(old, change, at)) \o end)
    /\ lineDiffs = <<>> /\ chunkIdx = 0
    /\ step = [op |-> "update", keys |-> {}, old |-> NoState, new |-> NoState]
    /\ flags \in [planning : {FALSE}, summary : BOOLEAN, debug : {FALSE}]
    /\ objDiff = <<>> /\ objKeys = <<>> /\ kidx = 0 /\ replaced = FALSE
    /\ IdleValue /\ IdleAssets

\* printAssetDiff up to the call of diffToPrettyString
TextStart ==
    /\ pc = "start"
    /\ oldBlob.hash # newBlob.hash /\ oldBlob.sub = "text" /\ newBlob.sub = "text"
    /\ MiddlesDisjoint(oldBlob.text, newBlob.text)
    /\ buf' = CatAll(<<<<CallEntry("printAssetDiff")>>,
                       Title(TextTitle, "update", TRUE),
                       write("update", "asset(text:%s) {\n",
                             getTextChangeString(shortHash(oldBlob.hash),
                                                 shortHash(newBlob.hash)))>>)
    /\ lineDiffs' = DiffLines(MassageIfUserProgramCodeAsset(oldBlob, flags.debug).text,
                              MassageIfUserProgramCodeAsset(newBlob, flags.debug).text)
    /\ chunkIdx' = 0
    /\ pc' = "chunks"
    /\ UNCHANGED <<indentVars, seed, chunk, oldBlob, newBlob, valueVars, stepVars, assetsVars>>

\* one iteration of the loop of diffToPrettyString
TextChunk ==
    /\ pc = "chunks"
    /\ chunkIdx < Len(lineDiffs)
    /\ chunk' = prettyChunk(lineDiffs, chunkIdx, TextIndent + 1)
    /\ buf' = Cat(buf, chunk')
    /\ chunkIdx' = chunkIdx + 1
    /\ UNCHANGED <<indentVars, pc, seed, oldBlob, newBlob, lineDiffs, valueVars, stepVars, assetsVars>>

\* diffToPrettyString returns; printAssetDiff closes the brace
TextDone ==
    /\ pc = "chunks"
    /\ chunkIdx >= Len(lineDiffs)
    /\ buf' = Cat(buf, writeWithIndentNoPrefix(TextIndent, "update", "}\n", <<>>))
    /\ pc' = "done"
    /\ UNCHANGED <<indentVars, seed, chunk, textVars, valueVars, stepVars, assetsVars>>

NextText == TextStart \/ TextChunk \/ TextDone

SpecText == InitText /\ [][NextText]_vars

\* The lines diffToPrettyString wrote: each with its tag and its glyph.
DiffLinesWritten(b) ==
    LET ws == SelectSeq(b, LAMBDA e : e.k = "write" /\ e.fmt = "%s" /\ e.n = TextIndent + 1)
    IN [m \in 1..Len(ws) |-> <<ws[m].op, ws[m].rp, ws[m].args[1]>>]

SameLine(c) == <<"same", "  ", <<48 + c>>>>
DotsLine == <<"same", "  ", LitDotsLine>>

\* old text "1".."7" without blank lines, new text with line 4 replaced
SevenLinesFourthChanged ==
    /\ oldBlob # <<>>
    /\ \E nl \in {<<>>, <<10>>} :
          /\ oldBlob.text = JoinLines(NumberedLines(7, 0)) \o nl
          /\ newBlob.text = JoinLines(Changed(NumberedLines(7, 0), "replace", 4)) \o nl

\* C7 as claimed: for an old text of 7 non-blank lines and a new text that
\* differs in line 4 only, the text diff is the first 2 lines, a `...` marker,
\* the changed line as a Delete followed by a Create, a `...` marker and the
\* last 2 lines.
C7_WindowedAsClaimed ==
    (pc = "done" /\ SevenLinesFourthChanged) =>
        DiffLinesWritten(buf) =
            <<SameLine(1), SameLine(2), DotsLine, <<"delete", "- ", <<52>>>>,
              <<"create", "+ ", <<88>>>>, DotsLine, SameLine(6), SameLine(7)>>

\* C7 as amended: for an old text of 7 non-blank lines and a new text that
\* differs in line 4 only, the text diff is the first 3 lines, the changed line
\* as a Delete followed by a Create, and the last 3 lines, without any `...`
\* marker: runs of 3 unchanged lines are within the context budget.
C7_SevenLinesShownInFull ==
    (pc = "done" /\ SevenLinesFourthChanged) =>
        DiffLinesWritten(buf) =
            <<SameLine(1), SameLine(2), SameLine(3), <<"delete", "- ", <<52>>>>,
              <<"create", "+ ", <<88>>>>, SameLine(5), SameLine(6), SameLine(7)>>

C7_Witness == pc = "done" /\ SevenLinesFourthChanged /\ Len(DiffLinesWritten(buf)) = 8

\* ---------------------- Spec: GetResourcePropertiesDetails on a step
\* The step's old and new inputs hold up to two properties, "a" and "b".  A
\* property's old and new value are drawn as a pair: <<>> is an absent
\* property, <<v>> a present one.

Pair(old, new) == [old |-> old, new |-> new]

ArchiveValue(a) == [kind |-> "archive", v |-> a]
AssetValue(a) == [kind |-> "asset", v |-> a]

LeafPairs ==
    {Pair(<<String(StrA)>>, <<String(StrB)>>),
     Pair(<<Null>>, <<String(StrA)>>),
     Pair(<<String(StrA)>>, <<String(StrA)>>),
     Pair(<<Null>>, <<Null>>),
     Pair(<<ArchiveValue(FileArchive(Hash1, PathP))>>, <<ArchiveValue(FileArchive(Hash2, PathQ))>>),
     Pair(<<ArchiveValue(FileArchive(Hash1, PathP))>>, <<ArchiveValue(URIArchive(Hash2, PathQ))>>),
     Pair(<<ArchiveValue(AssetsArchive(Hash1, InnerOld))>>,
          <<ArchiveValue(AssetsArchive(Hash2, InnerNew))>>),
     Pair(<<AssetValue(FileAsset(Hash1, PathP))>>, <<AssetValue(FileAsset(Hash2, PathQ))>>),
     Pair(<<AssetValue(FileAsset(Hash1, PathP))>>, <<ArchiveValue(FileArchive(Hash2, PathQ))>>),
     Pair(<<>>, <<Null>>),
     Pair(<<>>, <<String(StrA)>>),
     Pair(<<>>, <<Output>>),
     Pair(<<>>, <<Array(<<Null, String(StrA)>>)>>),
     Pair(<<>>, <<Object((KeyN :> Null) @@ (KeyX :> String(StrA)))>>),
     Pair(<<String(StrA)>>, <<>>)}

\* the pair as the member "x" of an object that also holds a null member "n"
ObjSide(side) ==
    Object(IF side = <<>> THEN (KeyN :> Null) ELSE (KeyN :> Null) @@ (KeyX :> side[1]))

WrapObj(p) == Pair(<<ObjSide(p.old)>>, <<ObjSide(p.new)>>)

\* the pair as the second element of an array whose first element is null
WrapArr(p) == Pair(<<Array(<<Null>> \o p.old)>>, <<Array(<<Null>> \o p.new)>>)

RECURSIVE PairsAt(_)
PairsAt(d) ==
    IF d = 0 THEN LeafPairs
    ELSE LET below == PairsAt(d - 1)
         IN below \cup {WrapObj(p) : p \in below} \cup {WrapArr(p) : p \in below}

Absent == Pair(<<>>, <<>>)

PairsA == PairsAt(MaxDepth) \cup {Absent}

PairsB ==
    {Absent,
     Pair(<<String(StrA)>>, <<String(StrA)>>),
     Pair(<<String(StrA)>>, <<String(StrB)>>),
     Pair(<<ArchiveValue(FileArchive(Hash1, PathP))>>, <<ArchiveValue(FileArchive(Hash2, PathQ))>>)}

\* the property map holding "a" and "b" where present
PropsOf(a, b) ==
    LET ma == IF a = <<>> THEN <<>> ELSE (KeyA :> a[1])
        mb == IF b = <<>> THEN <<>> ELSE (KeyB :> b[1])
    IN IF a = <<>> THEN mb ELSE IF b = <<>> THEN ma ELSE ma @@ mb

StepOps == {"same", "update", "replace", "create", "delete"}

InitStep ==
    /\ IdleIndent
    /\ pc = "start" /\ seed = 0 /\ buf = <<>> /\ chunk = <<>>
    /\ \E op \in StepOps, ks \in {{}, {KeyA}, {KeyB}}, pa \in PairsA, pb \in PairsB :
          step = [op |-> op, keys |-> ks,
                  old |-> IF op = "create" THEN NoState ELSE <<PropsOf(pa.old, pb.old)>>,
                  new |-> IF op = "delete" THEN NoState ELSE <<PropsOf(pa.new, pb.new)>>]
    /\ flags \in [planning : BOOLEAN, summary : BOOLEAN, debug : {FALSE}]
    /\ objDiff = <<>> /\ objKeys = <<>> /\ kidx = 0 /\ replaced = FALSE
    /\ IdleValue /\ IdleAssets /\ IdleText

\* the indent GetResourcePropertiesDetails is called with (GetIndent of a root resource)
StepIndent == 0

\* old == nil && new != nil
DetailsCreate ==
    /\ pc = "start"
    /\ step.old = NoState /\ step.new # NoState
    /\ buf' = GetResourcePropertiesDetails(step.op, step.keys, step.old, step.new, StepIndent,
                                           flags.planning, flags.summary, flags.debug)
    /\ pc' = "done"
    /\ UNCHANGED <<indentVars, seed, chunk, valueVars, stepVars, assetsVars, textVars>>

\* new == nil && old != nil
DetailsDelete ==
    /\ pc = "start"
    /\ step.new = NoState /\ step.old # NoState
    /\ buf' = GetResourcePropertiesDetails(step.op, step.keys, step.old, step.new, StepIndent,
                                           flags.planning, flags.summary, flags.debug)
    /\ pc' = "done"
    /\ UNCHANGED <<indentVars, seed, chunk, valueVars, stepVars, assetsVars, textVars>>

\* printOldNewDiffs when olds.Diff(news) is nil
DetailsNoDiff ==
    /\ pc = "start"
    /\ step.old # NoState /\ step.new # NoState
    /\ ObjectDiffOf(step.old[1], step.new[1]) = <<>>
    /\ buf' = GetResourcePropertiesDetails(step.op, step.keys, step.old, step.new, StepIndent,
                                           flags.planning, flags.summary, flags.debug)
    /\ pc' = "done"
    /\ UNCHANGED <<indentVars, seed, chunk, valueVars, stepVars, assetsVars, textVars>>

\* printOldNewDiffs when there is a diff: printObjectDiff up to its loop
DetailsDiff ==
    /\ pc = "start"
    /\ step.old # NoState /\ step.new # NoState
    /\ ObjectDiffOf(step.old[1], step.new[1]) # <<>>
    /\ objDiff' = ObjectDiffOf(step.old[1], step.new[1])
    /\ objKeys' = DiffKeys(objDiff'[1])
    /\ kidx' = 0
    /\ replaced' = FALSE
    /\ pc' = "keys"
    /\ UNCHANGED <<indentVars, seed, buf, chunk, step, flags, valueVars, assetsVars, textVars>>

\* one iteration of the loop of printObjectDiff
ObjectDiffKey ==
    /\ pc = "keys"
    /\ kidx < Len(objKeys)
    /\ LET k == objKeys[kidx + 1]
           c == objectDiffStep(objDiff[1], k, maxKey(objKeys), stepReplaces(step.op, step.keys),
                               replaced, flags.planning, StepIndent + 1, flags.summary,
                               flags.debug)
       IN /\ chunk' = c
          /\ buf' = Cat(buf, c)
          /\ replaced' = nextCausedReplace(objDiff[1], k, stepReplaces(step.op, step.keys),
                                           replaced)
          /\ pc' = IF Panicked(c) THEN "panic" ELSE "keys"
    /\ kidx' = kidx + 1
    /\ UNCHANGED <<indentVars, seed, step, flags, objDiff, objKeys, valueVars, assetsVars, textVars>>

ObjectDiffDone ==
    /\ pc = "keys"
    /\ kidx >= Len(objKeys)
    /\ pc' = "done"
    /\ UNCHANGED <<indentVars, seed, buf, chunk, stepVars, valueVars, assetsVars, textVars>>

Next ==
    \/ DetailsCreate \/ DetailsDelete \/ DetailsNoDiff \/ DetailsDiff
    \/ ObjectDiffKey \/ ObjectDiffDone

Spec == InitStep /\ [][Next]_vars

\* The stepwise loop writes what printObjectDiff writes in one call.
StepwiseIsWhole ==
    pc = "done" =>
        buf = GetResourcePropertiesDetails(step.op, step.keys, step.old, step.new, StepIndent,
                                           flags.planning, flags.summary, flags.debug)

\* The loop of printObjectDiff has handled objKeys[kidx]; chunk is what it wrote.
KeyHandled == pc \in {"keys", "done", "panic"} /\ kidx > 0

LastKey == objKeys[kidx]

LastUpdated == KeyHandled /\ LastKey \in DOMAIN objDiff[1].Updates

LastUpdate == objDiff[1].Updates[LastKey]

Calls(c) == SelectSeq(c, LAMBDA e : e.k = "call")

HasCall(c, fn) == \E n \in 1..Len(c) : c[n] = CallEntry(fn)

ArchiveFormats ==
    {"archive(file:%s) { %s }\n", "archive(uri:%s) { %s }\n", "archive(assets:%s) {\n"}

HasWrite(c, op, fmts) == \E n \in 1..Len(c) : c[n].k = "write" /\ c[n].op = op /\ c[n].fmt \in fmts

\* C2: once an updated key of the replace-key set has set causedReplace, no
\* leaf update beneath it is rendered by the archive/asset differ: there is no
\* call of the differ and no Update-tagged archive line in what the key wrote.
C2_ReplaceKeyNeverUsesDiffer ==
    (LastUpdated /\ LastKey \in stepReplaces(step.op, step.keys)) =>
        /\ replaced
        /\ ~HasCall(chunk, "printArchiveDiff")
        /\ ~HasCall(chunk, "printAssetsDiff")
        /\ ~HasCall(chunk, "printAssetDiff")
        /\ ~HasWrite(chunk, "update", ArchiveFormats)

\* an archive-to-archive update nested below the replacing key, rendered as
\* a deleted and an added archive
C2_Witness ==
    /\ LastUpdated /\ LastKey \in stepReplaces(step.op, step.keys)
    /\ LastUpdate.Old.kind \in {"array", "object"}
    /\ HasWrite(chunk, "delete", {"archive(file:%s) { %s }"})
    /\ HasWrite(chunk, "create", {"archive(file:%s) { %s }"})

\* C3: the details of a step whose old and new property trees are identical,
\* rendered with summary=false, hold only Same-tagged lines and no Create,
\* Delete or Update glyph, whatever the step's operation.
TreesIdentical ==
    /\ step.old # NoState /\ step.new # NoState
    /\ DeepEquals(Object(step.old[1]), Object(step.new[1]))

C3_IdenticalTreesRenderSame ==
    (pc = "done" /\ TreesIdentical /\ ~flags.summary) =>
        \A n \in 1..Len(Writes(buf)) :
            Writes(buf)[n].op = "same" /\ Writes(buf)[n].rp \in {"", "  "}

\* C5: a null or empty value is omitted by its parent.
IsEmptyWrite(w) ==
    \/ w.fmt = "%s" /\ w.args \in {<<LitNull>>, <<LitEmptyArr>>, <<LitEmptyObj>>}
    \/ w.fmt = "%q" /\ w.args = << <<>> >>

IsElemTitle(w) == w.fmt \in {"    [%d]: ", "[%d]: "}

IsEmptyValue(v) == v.kind \in {"null", "string", "array", "object"} /\ v.v = <<>>

\* the element title of index m is followed by the line of an empty value
EmitsEmptyElem(c, m) ==
    \E n \in 1..(Len(Writes(c)) - 1) :
        /\ IsElemTitle(Writes(c)[n]) /\ Writes(c)[n].args = << <<m>> >>
        /\ IsEmptyWrite(Writes(c)[n + 1])

EmptyElemsEmitted(c, arr) ==
    \A m \in 1..Len(arr) : IsEmptyValue(arr[m]) => EmitsEmptyElem(c, m - 1)

EmptyEntriesEmitted(c, entries) ==
    \A m \in DOMAIN entries : IsEmptyValue(entries[m]) => EmitsEmptyElem(c, m)

LeafHandled == LastUpdated /\ LastUpdate.Array = <<>> /\ LastUpdate.Object = <<>>

BothOfKind(d, kind) == d.Old.kind = kind /\ d.New.kind = kind

Delegated(c) ==
    c # <<>> /\ c[1] \in {CallEntry("printArchiveDiff"), CallEntry("printAssetDiff")}

\* the calls of the fallback: printDelete of a printable old value, then
\* printAdd of a printable new value
FallbackCalls(d) ==
    (IF shouldPrintPropertyValue(d.Old, FALSE) THEN <<CallEntry("printDelete")>> ELSE <<>>)
    \o (IF shouldPrintPropertyValue(d.New, FALSE) THEN <<CallEntry("printAdd")>> ELSE <<>>)

\* C8 as claimed: a leaf update goes to the asset/archive differ exactly when
\* Old and New are both assets or both archives and causedReplace is false.
C8_SameKindLeafDelegated ==
    LeafHandled =>
        (((BothOfKind(LastUpdate, "asset") \/ BothOfKind(LastUpdate, "archive")) /\ ~replaced)
            <=> Delegated(chunk))

\* C8 as amended: a leaf update goes to the archive differ exactly when Old and
\* New are both archives and causedReplace is false; every other leaf update,
\* that of two assets included, is rendered as the Delete-tagged old value
\* followed by the Create-tagged new value.
C8_OnlyArchivesDelegated ==
    LeafHandled =>
        IF BothOfKind(LastUpdate, "archive") /\ ~replaced
        THEN chunk[1] = CallEntry("printArchiveDiff")
        ELSE /\ Calls(chunk) = FallbackCalls(LastUpdate)
             /\ Writes(chunk) = <<>> \/ AllTagged(Writes(chunk), "delete")
                \/ AllTagged(Writes(chunk), "create") \/ DeleteThenCreate(Writes(chunk))

C8_Witness ==
    /\ LeafHandled /\ BothOfKind(LastUpdate, "asset") /\ ~replaced
    /\ Calls(chunk) = <<CallEntry("printDelete"), CallEntry("printAdd")>>

\* C13: in the object diff of the step, entered with causedReplace=false, an
\* updated key that is not in the replace-key set is rendered with
\* causedReplace=false, whichever sibling keys were handled before it: an
\* Archive/Archive leaf update under it goes to the archive differ.
C13_ReplaceFlagScopedToKey ==
    (LastUpdated /\ LastKey \notin stepReplaces(step.op, step.keys)) =>
        /\ ~replaced
        /\ (LeafHandled /\ BothOfKind(LastUpdate, "archive")) =>
               HasCall(chunk, "printArchiveDiff")

\* ------------------ SpecDeterminism: two render calls on the same step
\* The two calls range over their maps in the orders of firstSeed and seed.

InitDeterminism ==
    /\ IdleIndent
    /\ pc = "start" /\ buf = <<>> /\ chunk = <<>>
    /\ seed \in 0..MaxSeed /\ firstSeed = seed
    /\ ret = <<>> /\ val = Null /\ outs = FALSE
    /\ \E op \in {"update", "create", "delete"}, pa \in PairsA, pb \in PairsB :
          step = [op |-> op, keys |-> {},
                  old |-> IF op = "create" THEN NoState ELSE <<PropsOf(pa.old, pb.old)>>,
                  new |-> IF op = "delete" THEN NoState ELSE <<PropsOf(pa.new, pb.new)>>]
    /\ step.old # NoState \/ step.new # NoState
    /\ flags \in [planning : {TRUE}, summary : BOOLEAN, debug : {FALSE}]
    /\ objDiff = <<>> /\ objKeys = <<>> /\ kidx = 0 /\ replaced = FALSE
    /\ IdleAssets /\ IdleText

RenderFirst ==
    /\ pc = "start"
    /\ ret' = GetResourcePropertiesDetails(step.op, step.keys, step.old, step.new, StepIndent,
                                           flags.planning, flags.summary, flags.debug)
    /\ pc' = "first"
    /\ UNCHANGED <<indentVars, seed, firstSeed, buf, chunk, val, outs, stepVars, assetsVars, textVars>>

\* the runtime picks the iteration order of the next call
Reseed ==
    /\ pc = "first"
    /\ seed' \in 0..MaxSeed
    /\ pc' = "second"
    /\ UNCHANGED <<indentVars, firstSeed, buf, chunk, ret, val, outs, stepVars, assetsVars, textVars>>

RenderSecond ==
    /\ pc = "second"
    /\ buf' = GetResourcePropertiesDetails(step.op, step.keys, step.old, step.new, StepIndent,
                                           flags.planning, flags.summary, flags.debug)
    /\ pc' = "done"
    /\ UNCHANGED <<indentVars, seed, chunk, valueVars, stepVars, assetsVars, textVars>>

NextDeterminism == RenderFirst \/ Reseed \/ RenderSecond

SpecDeterminism == InitDeterminism /\ [][NextDeterminism]_vars

\* the names in the titles written at indentation level n
TitleNames(b, n, fmts) ==
    LET ws == SelectSeq(b, LAMBDA e : e.k = "write" /\ e.n = n /\ e.fmt \in fmts)
    IN [m \in 1..Len(ws) |-> ws[m].args[Len(ws[m].args)]]

NonDescending(names) ==
    \A m \in 1..(Len(names) - 1) : names[m] = names[m + 1] \/ StrLess(names[m], names[m + 1])

\* C6: two render calls on equal inputs produce the same output whatever the
\* iteration order of the maps, and the properties of the step and the
\* entries of an added or deleted archive are emitted in ascending order of
\* key.
C6_Deterministic ==
    pc = "done" =>
        /\ ret = buf
        /\ NonDescending(TitleNames(buf, StepIndent + 1, {"%-*s: "}))
        /\ NonDescending(TitleNames(buf, StepIndent + 1, {"    \"%v\": "}))

\* two calls with different iteration orders that render an archive of three entries
C6_Witness ==
    /\ pc = "done" /\ seed # firstSeed
    /\ Len(TitleNames(buf, StepIndent + 1, {"    \"%v\": "})) = 3
    /\ Len(TitleNames(buf, StepIndent + 1, {"%-*s: "})) >= 2

\* ---------- SpecSummary: GetResourcePropertiesDetails in and out of summary mode
\* The property "a" is drawn from pairs with unchanged parts at every depth: an
\* unchanged member of an updated object, an unchanged index of an updated
\* array, an unchanged entry of an updated archive, and a text asset of seven
\* lines whose fourth line changed.

TextEntriesOld == (KeyX :> TextAsset(Hash1, Text7)) @@ (KeyN :> FileAsset(Hash2, PathP))
TextEntriesNew == (KeyX :> TextAsset(Hash1b, Text7b)) @@ (KeyN :> FileAsset(Hash2, PathP))

SummaryPairs ==
    {Absent,
     Pair(<<String(StrA)>>, <<String(StrA)>>),
     Pair(<<String(StrA)>>, <<String(StrB)>>),
     Pair(<<>>, <<String(StrA)>>),
     Pair(<<String(StrA)>>, <<>>),
     Pair(<<Object((KeyN :> String(StrA)) @@ (KeyX :> String(StrA)))>>,
          <<Object((KeyN :> String(StrA)) @@ (KeyX :> String(StrB)))>>),
     Pair(<<Array(<<String(StrA), String(StrA)>>)>>, <<Array(<<String(StrA), String(StrB)>>)>>),
     Pair(<<ArchiveValue(AssetsArchive(Hash1, TextEntriesOld))>>,
          <<ArchiveValue(AssetsArchive(Hash2, TextEntriesNew))>>),
     Pair(<<ArchiveValue(AssetsArchive(Hash1, TextEntriesOld))>>,
          <<ArchiveValue(AssetsArchive(Hash1, TextEntriesOld))>>)}

InitSummary ==
    /\ IdleIndent
    /\ pc = "start" /\ seed = 0 /\ buf = <<>> /\ chunk = <<>>
    /\ \E op \in StepOps, ks \in {{}, {KeyA}}, pa \in SummaryPairs, pb \in PairsB :
          step = [op |-> op, keys |-> ks,
                  old |-> IF op = "create" THEN NoState ELSE <<PropsOf(pa.old, pb.old)>>,
                  new |-> IF op = "delete" THEN NoState ELSE <<PropsOf(pa.new, pb.new)>>]
    /\ flags \in [planning : BOOLEAN, summary : BOOLEAN, debug : {FALSE}]
    /\ objDiff = <<>> /\ objKeys = <<>> /\ kidx = 0 /\ replaced = FALSE
    /\ IdleValue /\ IdleAssets /\ IdleText

SpecSummary == InitSummary /\ [][Next]_vars

SameTagged(e) == e.k = "write" /\ e.op = "same"

SameLines(b) == SelectSeq(b, SameTagged)

\* a line written by writeDiff of diffToPrettyString: the only writes of the
\* format "%s" behind an indentation (writeVerbatim writes without one)
TextContextWrite(e) == e.k = "write" /\ e.fmt = "%s" /\ e.n > 0

SummaryOfPair ==
    pc = "done" /\ flags.summary /\ step.old # NoState /\ step.new # NoState

\* C11 as claimed: a details render of an old/new pair with summary=true
\* emits no Same-tagged line at any depth.
C11_SummaryNoSameLines == SummaryOfPair => SameLines(buf) = <<>>

\* C11: in a details render of an old/new pair with summary=true, the only
\* Same-tagged lines are the unchanged context lines and `...` markers of a
\* text-asset diff, or, when the two trees are identical and the step's
\* operation is Same, the lines of the new object printed whole; no
\* Same-tagged line is written for a key in Sames, an unchanged array index or
\* an unchanged archive entry.
C11_SummarySameOnlyAsContext ==
    SummaryOfPair =>
        \A n \in 1..Len(buf) :
            SameTagged(buf[n]) =>
                \/ TextContextWrite(buf[n])
                \/ ObjectDiffOf(step.old[1], step.new[1]) = <<>> /\ step.op = "same"

\* a summary render where "b" is unchanged and "a" is an updated archive
\* with an unchanged entry and a changed text asset: the Same-tagged lines are
\* the six context lines of the text
C11_Witness ==
    /\ SummaryOfPair
    /\ objDiff # <<>> /\ KeyB \in DOMAIN objDiff[1].Sames
    /\ HasCall(buf, "printAssetsDiff")
    /\ Len(SameLines(buf)) = 6

\* ------------- SpecWindow: diffToPrettyString on a sequence of diff runs
\* The runs are drawn directly: equal runs of 1..MaxLines lines "1", "2", ...,
\* an inserted line "X" and a deleted line "Y", in any order.  With blanks
\* set, every run also holds a whitespace-only line after its first line (and
\* every run ends in a newline, which leaves an empty last piece).

RunText(lines, blanks) ==
    LET all == IF blanks THEN InsertAt(lines, 2, <<32>>) ELSE lines
    IN Join([m \in 1..Len(all) |-> Append(all[m], 10)])

RunPool(blanks) ==
    {DiffChunk("equal", RunText(NumberedLines(n, 0), blanks)) : n \in 1..MaxLines}
        \cup {DiffChunk("insert", RunText(<<<<88>>>>, blanks)),
              DiffChunk("delete", RunText(<<<<89>>>>, blanks))}

InitWindow ==
    /\ IdleIndent
    /\ pc = "chunks" /\ seed = 0 /\ buf = <<>> /\ chunk = <<>>
    /\ \E blanks \in BOOLEAN : lineDiffs \in SeqsUpTo(RunPool(blanks), MaxChunks)
    /\ lineDiffs # <<>>
    /\ oldBlob = <<>> /\ newBlob = <<>> /\ chunkIdx = 0
    /\ step = [op |-> "update", keys |-> {}, old |-> NoState, new |-> NoState]
    /\ flags \in [planning : {FALSE}, summary : BOOLEAN, debug : {FALSE}]
    /\ objDiff = <<>> /\ objKeys = <<>> /\ kidx = 0 /\ replaced = FALSE
    /\ IdleValue /\ IdleAssets

NextWindow == TextChunk \/ TextDone

SpecWindow == InitWindow /\ [][NextWindow]_vars

\* The loop of diffToPrettyString has handled the run lineDiffs[chunkIdx];
\* chunk is what it wrote.
RunHandled == pc \in {"chunks", "done"} /\ chunkIdx > 0 /\ lineDiffs # <<>>

LastRun == lineDiffs[chunkIdx]

RunIsFirst == chunkIdx = 1
RunIsLast == chunkIdx = Len(lineDiffs)

NonBlank(text) == SelectSeq(Split(text), LAMBDA l : ~IsBlank(l))

Tagged(op, lines) ==
    [m \in 1..Len(lines) |-> <<op, IF op = "same" THEN "  " ELSE RawPrefix(op), lines[m]>>]

\* what the claim says a run writes, by its type, its place and its number
\* n of non-blank lines
WindowOf(run, first, last) ==
    LET nb == NonBlank(run.text)
        n == Len(nb)
    IN IF run.type = "insert" THEN Tagged("create", nb)
       ELSE IF run.type = "delete" THEN Tagged("delete", nb)
       ELSE IF first
       THEN IF n > 3 THEN <<DotsLine>> \o Tagged("same", SubSeq(nb, n - 1, n))
            ELSE Tagged("same", nb)
       ELSE IF last
       THEN IF n > 3 THEN Tagged("same", SubSeq(nb, 1, 2)) \o <<DotsLine>>
            ELSE Tagged("same", nb)
       ELSE IF n > 5
       THEN Tagged("same", SubSeq(nb, 1, 2)) \o <<DotsLine>> \o Tagged("same", SubSeq(nb, n - 1, n))
       ELSE Tagged("same", nb)

\* C12: with a context of 2 lines and n the number of non-blank lines of a
\* run: a first equal run with n > 3 is written as `...` and its last 2 lines,
\* a last (and not first) equal run with n > 3 as its first 2 lines and `...`,
\* an interior equal run with n > 5 as its first 2 lines, `...` and its last 2
\* lines, any other equal run in full without `...`; an inserted or deleted
\* run is written in full; and no written line is blank or whitespace-only.
C12_EqualRunsWindowed ==
    RunHandled =>
        /\ DiffLinesWritten(chunk) = WindowOf(LastRun, RunIsFirst, RunIsLast)
        /\ \A m \in 1..Len(chunk) : chunk[m].k = "write" => ~IsBlank(chunk[m].args[1])

\* an interior equal run of more than 5 lines, one of them whitespace-only,
\* written as five lines
C12_Witness ==
    /\ RunHandled /\ ~RunIsFirst /\ ~RunIsLast
    /\ LastRun.type = "equal"
    /\ Len(NonBlank(LastRun.text)) > 5
    /\ Len(NonBlank(LastRun.text)) + 1 < Len(Split(LastRun.text))
    /\ Len(DiffLinesWritten(chunk)) = 5

\* ------------------ SpecIndent: GetIndent's walk of the parent chain
\* seen maps the URN of each seen step to that step's Res.Parent; the empty
\* URN is no parent.  Every map over the URNs is drawn, those whose parent
\* references form a cycle included.

URNPool == <<"urn:a", "urn:b", "urn:c", "urn:d", "urn:e">>

URNs == {URNPool[n] : n \in 1..(IF MaxURNs < Len(URNPool) THEN MaxURNs ELSE Len(URNPool))}

NoURN == ""

IntRange == 2 ^ IntBits

\* the loop condition alone, without the break on a parent that is not seen
walkStopsAtRoot(seen, p) == p = NoURN

\* the walk stops: p is empty (the loop condition) or is not a key of seen (the break)
walkStops(seen, p) == p = NoURN \/ p \notin DOMAIN seen

\* par.Res.Parent, par being the zero value when p is not a key of seen
nextParent(seen, p) == IF p \in DOMAIN seen THEN seen[p] ELSE NoURN

InitIndent ==
    /\ pc = "walk" /\ seed = 0 /\ buf = <<>> /\ chunk = <<>>
    /\ seenSteps \in MapsOver(URNs, URNs \cup {NoURN})
    /\ parentURN \in URNs \cup {NoURN}
    /\ hops = 0
    /\ step = [op |-> "same", keys |-> {}, old |-> NoState, new |-> NoState,
               parent |-> parentURN]
    /\ flags = [planning |-> FALSE, summary |-> FALSE, debug |-> FALSE]
    /\ objDiff = <<>> /\ objKeys = <<>> /\ kidx = 0 /\ replaced = FALSE
    /\ firstSeed = 0 /\ ret = 0 /\ val = Null /\ outs = FALSE
    /\ IdleAssets /\ IdleText

\* one iteration of the loop that finds p in seen
IndentHop ==
    /\ pc = "walk"
    /\ ~walkStops(seenSteps, parentURN)
    /\ hops' = (hops + 1) % IntRange
    /\ parentURN' = nextParent(seenSteps, parentURN)
    /\ UNCHANGED <<pc, seed, buf, chunk, seenSteps, valueVars, stepVars, assetsVars, textVars>>

\* the loop ends and GetIndent returns indent
IndentReturn ==
    /\ pc = "walk"
    /\ walkStops(seenSteps, parentURN)
    /\ ret' = hops
    /\ pc' = "done"
    /\ UNCHANGED <<seed, buf, chunk, firstSeed, val, outs, stepVars, assetsVars, textVars,
                   indentVars>>

NextIndent == IndentHop \/ IndentReturn

\* GetIndent runs to its end without waiting for anything: a step that can
\* be taken is taken.
SpecIndent == InitIndent /\ [][NextIndent]_vars /\ WF_vars(NextIndent)

\* the parent n references up from the step ("" beyond the end of the chain)
RECURSIVE Ancestor(_)
Ancestor(n) ==
    IF n = 0 THEN step.parent
    ELSE LET a == Ancestor(n - 1)
         IN IF a = NoURN \/ a \notin DOMAIN seenSteps THEN NoURN ELSE seenSteps[a]

AbsentAt(n) == Ancestor(n) = NoURN \/ Ancestor(n) \notin DOMAIN seenSteps

\* the step's parent chain reaches a parent that is not seen (or no parent)
ChainEnds == \E n \in 0..Cardinality(DOMAIN seenSteps) : AbsentAt(n)

\* the number of hops before the first parent that is absent from seen
HopsBeforeAbsent ==
    CHOOSE n \in 0..Cardinality(DOMAIN seenSteps) :
        AbsentAt(n) /\ \A m \in 0..(n - 1) : ~AbsentAt(m)

====
